---- MODULE Spec2Model ----
(***************************************************************************)
(* Kibana saved-object exporter and environment rewriter.                  *)
(*                                                                         *)
(*   modify_ndjson_env.py      modify_value / modify_dict /                *)
(*                             modify_ndjson_file                          *)
(*   kibana_object_modifier.py modify_with_prefix /                        *)
(*                             extract_and_modify_attributes               *)
(*   export_kibana_data.py     main (export loop)                          *)
(*   kibana_export_tool.py     validate_spaces / export_objects / main     *)
(*                                                                         *)
(* A Python str is a sequence of one-character strings.  A Python value    *)
(* that json can hold is a tuple whose first element is its type:          *)
(*   <<"null">>  <<"bool", b>>  <<"int", n>>  <<"str", chars>>             *)
(*   <<"list", items>>  <<"dict", keys, vals>>  (keys in insertion order)  *)
(* The outcome of a call is such a value or <<"raise", exception>>.        *)
(***************************************************************************)
EXTENDS Integers, Sequences, FiniteSets, TLC

VARIABLES
    \* a call of the transformer and a second pass over its result
    fn, value, tag, result, result2, pc,
    \* modify_ndjson_file: the lines of the input file, the number of
    \* lines consumed, the lines written, the logged errors, the prefix
    infile, line_num, outfile, log, env_item, fpc,
    \* an export run: the tool, the platform's space list, the ids given
    \* with --spaces, the spaces to export, the number of them handled, the
    \* export requests sent, the spaces saved, the errors logged, whether
    \* spaces_details.json is written, the position of main
    tool, all_spaces, spaces, spaces_to_export, xi, requests, exported,
    errors, details, xpc,
    \* extract_and_modify_attributes: the loaded batch, the batch as it
    \* was parsed from the file, the prefixes, the number of prefixes
    \* done, the number of objects done for the prefix at hand, its
    \* modified_objects, the batches written, the position
    original_objects, parsed_objects, prefixes, pi, oi, modified_objects,
    written, mpc,
    \* main of modify_ndjson_env.py: the mode, the --env argument, the list
    \* envs, the number of its tags the loop has taken up, the output files
    \* on disk, the records of logger.exception, the exit status, the position
    mode, env, envs, ei, outputs, failures, exit_status, mainpc

valueVars == <<fn, value, tag, result, result2, pc>>
fileVars == <<infile, line_num, outfile, log, env_item, fpc>>
exportVars ==
    <<tool, all_spaces, spaces, spaces_to_export, xi, requests, exported,
      errors, details, xpc>>
modifierVars ==
    <<original_objects, parsed_objects, prefixes, pi, oi, modified_objects,
      written, mpc>>
mainVars == <<mode, env, envs, ei, outputs, failures, exit_status, mainpc>>
vars == <<valueVars, fileVars, exportVars, modifierVars, mainVars>>

---------------------------------------------------------------------------
(* Python values *)

Null == <<"null">>
Bool(b) == <<"bool", b>>
Num(n) == <<"int", n>>
Str(s) == <<"str", s>>
List(xs) == <<"list", xs>>
Dict(ks, vs) == <<"dict", ks, vs>>
Raise(e) == <<"raise", e>>

TypeOf(v) == v[1]
IsRaise(r) == r[1] = "raise"
IsStr(v) == v[1] = "str"
IsList(v) == v[1] = "list"
IsDict(v) == v[1] = "dict"

(* None is the marker of "nothing yet" in the call variables *)
None == <<"none">>

(* the first exception of a sequence of outcomes: a comprehension stops at
   the first element whose evaluation raises *)
FirstRaise(rs) ==
    rs[CHOOSE i \in 1..Len(rs) :
          IsRaise(rs[i]) /\ \A j \in 1..(i - 1) : ~IsRaise(rs[j])]

AnyRaise(rs) == \E i \in 1..Len(rs) : IsRaise(rs[i])

---------------------------------------------------------------------------
(* str operations *)

\* c in s
Contains(s, c) == \E i \in 1..Len(s) : s[i] = c

\* s.startswith(p)
StartsWith(s, p) ==
    /\ Len(p) <= Len(s)
    /\ \A i \in 1..Len(p) : s[i] = p[i]

\* s[i:i+len(w)] == w
MatchAt(s, i, w) ==
    /\ i + Len(w) - 1 <= Len(s)
    /\ \A k \in 1..Len(w) : s[i + k - 1] = w[k]

DigitSeq == <<"0", "1", "2", "3", "4", "5", "6", "7", "8", "9">>
Digits == {DigitSeq[i] : i \in 1..Len(DigitSeq)}
DigitVal(c) == (CHOOSE i \in 1..Len(DigitSeq) : DigitSeq[i] = c) - 1

\* str(n) for n >= 0
RECURSIVE IntDigits(_)
IntDigits(n) ==
    IF n < Len(DigitSeq)
    THEN <<DigitSeq[n + 1]>>
    ELSE Append(IntDigits(n \div Len(DigitSeq)), DigitSeq[(n % Len(DigitSeq)) + 1])

\* sep.join(parts)
RECURSIVE Join(_, _)
Join(parts, sep) ==
    IF parts = <<>> THEN <<>>
    ELSE IF Len(parts) = 1 THEN parts[1]
    ELSE parts[1] \o sep \o Join(Tail(parts), sep)

---------------------------------------------------------------------------
(* dict operations *)

EmptyDict == Dict(<<>>, <<>>)

HasKey(d, k) == \E i \in 1..Len(d[2]) : d[2][i] = k

KeyIndex(d, k) == CHOOSE i \in 1..Len(d[2]) : d[2][i] = k

\* d[k]
Get(d, k) == d[3][KeyIndex(d, k)]

\* d[k] = v : an existing key keeps its place, a new key goes last
DictSet(d, k, v) ==
    IF HasKey(d, k)
    THEN Dict(d[2], [d[3] EXCEPT ![KeyIndex(d, k)] = v])
    ELSE Dict(Append(d[2], k), Append(d[3], v))

---------------------------------------------------------------------------
(* json.loads: the decoder of the standard library, for the JSON grammar    *)
(* over the characters the model uses: objects, arrays, strings with the   *)
(* escapes \" and \\, unsigned integers, the literals null true false,     *)
(* and the blank as whitespace.  A result is <<ok, value, next position>>. *)

Ws == {" "}
Quote == "\""
Backslash == "\\"

\* the element of a set of one. A value bound by \in is computed once, where
\* a LET definition is computed again at each place it is used: the results
\* of the recursive scans below are bound this way
The(S) == CHOOSE x \in S : TRUE

ParseFail == <<FALSE, Null, 0>>
ParseOk(v, next) == <<TRUE, v, next>>

RECURSIVE SkipWs(_, _)
SkipWs(s, i) ==
    IF i <= Len(s) /\ s[i] \in Ws THEN SkipWs(s, i + 1) ELSE i

\* the string whose opening quote is before position i
RECURSIVE ScanString(_, _, _)
ScanString(s, i, acc) ==
    IF i > Len(s) THEN ParseFail
    ELSE IF s[i] = Quote THEN ParseOk(Str(acc), i + 1)
    ELSE IF s[i] = Backslash
    THEN IF i + 1 <= Len(s) /\ s[i + 1] \in {Quote, Backslash}
         THEN ScanString(s, i + 2, Append(acc, s[i + 1]))
         ELSE ParseFail
    ELSE ScanString(s, i + 1, Append(acc, s[i]))

\* the integer that starts at position i: 0, or [1-9][0-9]*
RECURSIVE ScanDigits(_, _, _)
ScanDigits(s, i, n) ==
    IF i <= Len(s) /\ s[i] \in Digits
    THEN ScanDigits(s, i + 1, n * Len(DigitSeq) + DigitVal(s[i]))
    ELSE ParseOk(Num(n), i)

ScanNumber(s, i) ==
    IF s[i] = "0" THEN ParseOk(Num(0), i + 1) ELSE ScanDigits(s, i, 0)

W_null == <<"n", "u", "l", "l">>
W_true == <<"t", "r", "u", "e">>
W_false == <<"f", "a", "l", "s", "e">>

RECURSIVE ParseValue(_, _), ObjMembers(_, _, _), ArrItems(_, _, _)

\* scan_once(s, i)
ParseValue(s, i) ==
    IF i > Len(s) THEN ParseFail
    ELSE IF s[i] = Quote THEN ScanString(s, i + 1, <<>>)
    ELSE IF s[i] = "{"
    THEN LET j == SkipWs(s, i + 1)
         IN  IF j <= Len(s) /\ s[j] = "}"
             THEN ParseOk(EmptyDict, j + 1)
             ELSE ObjMembers(s, j, EmptyDict)
    ELSE IF s[i] = "["
    THEN LET j == SkipWs(s, i + 1)
         IN  IF j <= Len(s) /\ s[j] = "]"
             THEN ParseOk(List(<<>>), j + 1)
             ELSE ArrItems(s, j, <<>>)
    ELSE IF MatchAt(s, i, W_null) THEN ParseOk(Null, i + Len(W_null))
    ELSE IF MatchAt(s, i, W_true) THEN ParseOk(Bool(TRUE), i + Len(W_true))
    ELSE IF MatchAt(s, i, W_false) THEN ParseOk(Bool(FALSE), i + Len(W_false))
    ELSE IF s[i] \in Digits THEN ScanNumber(s, i)
    ELSE ParseFail

\* the members of an object, position i at the quote of the next key
ObjMembers(s, i, d) ==
    IF i > Len(s) \/ s[i] # Quote THEN ParseFail
    ELSE The({
           IF ~k[1] THEN ParseFail
           ELSE LET j == SkipWs(s, k[3])
                IN  IF j > Len(s) \/ s[j] # ":" THEN ParseFail
                    ELSE The({
                           IF ~v[1] THEN ParseFail
                           ELSE LET d2 == DictSet(d, k[2][2], v[2])
                                    e == SkipWs(s, v[3])
                                IN  IF e > Len(s) THEN ParseFail
                                    ELSE IF s[e] = "}" THEN ParseOk(d2, e + 1)
                                    ELSE IF s[e] = ","
                                    THEN ObjMembers(s, SkipWs(s, e + 1), d2)
                                    ELSE ParseFail
                           : v \in {ParseValue(s, SkipWs(s, j + 1))}})
           : k \in {ScanString(s, i + 1, <<>>)}})

\* the items of an array, position i at the next item
ArrItems(s, i, acc) ==
    The({
      IF ~v[1] THEN ParseFail
      ELSE LET e == SkipWs(s, v[3])
           IN  IF e > Len(s) THEN ParseFail
               ELSE IF s[e] = "]" THEN ParseOk(List(Append(acc, v[2])), e + 1)
               ELSE IF s[e] = ","
               THEN ArrItems(s, SkipWs(s, e + 1), Append(acc, v[2]))
               ELSE ParseFail
      : v \in {ParseValue(s, i)}})

\* json.loads(s): <<TRUE, value>>, or <<FALSE, _>> for JSONDecodeError
JsonLoads(s) ==
    The({
      IF r[1] /\ SkipWs(s, r[3]) = Len(s) + 1
      THEN <<TRUE, r[2]>>
      ELSE <<FALSE, Null>>
      : r \in {ParseValue(s, SkipWs(s, 1))}})

IsJson(s) == JsonLoads(s)[1]

---------------------------------------------------------------------------
(* json.dumps *)

RECURSIVE EscapeStr(_)
EscapeStr(s) ==
    IF s = <<>> THEN <<>>
    ELSE IF Head(s) \in {Quote, Backslash}
    THEN <<Backslash, Head(s)>> \o EscapeStr(Tail(s))
    ELSE <<Head(s)>> \o EscapeStr(Tail(s))

Quoted(s) == <<Quote>> \o EscapeStr(s) \o <<Quote>>

\* the encoder, with its two separators
RECURSIVE Serialize(_, _, _)
Serialize(v, itemSep, keySep) ==
    IF TypeOf(v) = "null" THEN W_null
    ELSE IF TypeOf(v) = "bool" THEN (IF v[2] THEN W_true ELSE W_false)
    ELSE IF TypeOf(v) = "int" THEN IntDigits(v[2])
    ELSE IF TypeOf(v) = "str" THEN Quoted(v[2])
    ELSE IF TypeOf(v) = "list"
    THEN <<"[">>
         \o Join([i \in 1..Len(v[2]) |-> Serialize(v[2][i], itemSep, keySep)], itemSep)
         \o <<"]">>
    ELSE <<"{">>
         \o Join([i \in 1..Len(v[2]) |->
                    Quoted(v[2][i]) \o keySep \o Serialize(v[3][i], itemSep, keySep)],
                 itemSep)
         \o <<"}">>

\* json.dumps(v), default separators
JsonDumps(v) == Serialize(v, <<",", " ">>, <<":", " ">>)

---------------------------------------------------------------------------
(* modify_ndjson_env.py: the transformer *)

\* f"{env_prefix}:"
EnvPrefix(env_prefix) == env_prefix \o <<":">>

\* the handler of the except clause: the rule for a plain string
LeafRule(s, env_prefix) ==
    IF Contains(s, "*") /\ ~StartsWith(s, EnvPrefix(env_prefix))
    THEN Str(EnvPrefix(env_prefix) \o s)
    ELSE Str(s)

RECURSIVE modify_value(_, _), modify_dict(_, _)

modify_value(v, env_prefix) ==
    IF IsStr(v)
    THEN LET parsed == JsonLoads(v[2])
         IN  IF ~parsed[1]
             THEN LeafRule(v[2], env_prefix)
             ELSE LET modified == modify_dict(parsed[2], env_prefix)
                  IN  IF IsRaise(modified)
                      THEN IF modified[2] = "TypeError"
                           THEN LeafRule(v[2], env_prefix)
                           ELSE modified
                      ELSE Str(JsonDumps(modified))
    ELSE IF IsList(v)
    THEN LET rs == [i \in 1..Len(v[2]) |-> modify_value(v[2][i], env_prefix)]
         IN  IF AnyRaise(rs) THEN FirstRaise(rs) ELSE List(rs)
    ELSE IF IsDict(v) THEN modify_dict(v, env_prefix)
    ELSE v

\* d.items() exists on a dict only
modify_dict(d, env_prefix) ==
    IF ~IsDict(d) THEN Raise("AttributeError")
    ELSE LET rs == [i \in 1..Len(d[3]) |-> modify_value(d[3][i], env_prefix)]
         IN  IF AnyRaise(rs) THEN FirstRaise(rs) ELSE Dict(d[2], rs)

---------------------------------------------------------------------------
(* The environment tags: argparse choices, and the list 'all' expands to *)

dev == <<"d", "e", "v">>
test == <<"t", "e", "s", "t">>
sim == <<"s", "i", "m">>
live == <<"l", "i", "v", "e">>

ENVS == <<dev, test, sim, live>>
Tags == {ENVS[i] : i \in 1..Len(ENVS)}

---------------------------------------------------------------------------
(* Input values of the transformer *)

\* the longest string of the exhaustive part of the inputs
MaxLen == 3

Chars == {"{", "}", "[", "]", Quote, "*", "1", "a", " "}
ShortStrings == UNION {[1..n -> Chars] : n \in 0..MaxLen}

T_foo == <<"f", "o", "o", "*", "b", "a", "r">>
T_devfoo == dev \o <<":">> \o T_foo
T_status == <<"s", "t", "a", "t", "u", "s", ":", "*">>
T_teststatus == test \o <<":">> \o T_status
T_source == <<"s", "o", "u", "r", "c", "e", ":", "*">>
T_logs == <<"A", "l", "l", " ", "l", "o", "g", "s">>
T_a1 == <<"a", "1">>
T_a1star == <<"a", "1", "*">>
T_search == <<"s", "e", "a", "r", "c", "h">>

K_query == <<"q", "u", "e", "r", "y">>
K_title == <<"t", "i", "t", "l", "e">>
K_kstar == <<"k", "*">>
K_id == <<"i", "d">>
K_type == <<"t", "y", "p", "e">>
K_attributes == <<"a", "t", "t", "r", "i", "b", "u", "t", "e", "s">>
K_references == <<"r", "e", "f", "e", "r", "e", "n", "c", "e", "s">>

\* the text of a value as an export holds it: no blank after a separator
Compact(v) == Serialize(v, <<",">>, <<":">>)

PlainTexts == {T_foo, T_devfoo, T_status, T_teststatus, T_logs}
Scalars == {Null, Bool(TRUE), Bool(FALSE), Num(1), Num(123)}
Leaves == Scalars \cup {Str(t) : t \in PlainTexts}

Level1 ==
    {List(<<x>>) : x \in Leaves}
    \cup {List(<<x, y>>) : x \in {Num(1), Str(T_foo)}, y \in Leaves}
    \cup {Dict(<<k>>, <<x>>) : k \in {K_query, K_kstar}, x \in Leaves}
    \cup {Dict(<<K_kstar, K_query>>, <<x, y>>) : x \in {Num(1), Str(T_foo)}, y \in Leaves}
    \cup {EmptyDict, List(<<>>)}

\* JSON text held in a string field
Embedded ==
    {Str(Compact(v)) : v \in Leaves \cup Level1}
    \cup {Str(JsonDumps(v)) : v \in Leaves \cup Level1}

Level2 ==
    {Dict(<<K_query>>, <<e>>) : e \in Embedded}
    \cup {List(<<e>>) : e \in Embedded}
    \cup {Str(Compact(Dict(<<K_query>>, <<e>>))) : e \in Embedded}

Values ==
    {Str(s) : s \in ShortStrings} \cup Leaves \cup Level1 \cup Embedded \cup Level2

---------------------------------------------------------------------------
(* Calls of the transformer: one call, and a second pass over its result *)

CallFn(f, v, t) ==
    IF f = "modify_dict" THEN modify_dict(v, t) ELSE modify_value(v, t)

IdleValue ==
    /\ fn = "none"
    /\ value = None
    /\ tag = <<>>
    /\ result = None
    /\ result2 = None
    /\ pc = "idle"

IdleFile ==
    /\ infile = <<>>
    /\ line_num = 0
    /\ outfile = <<>>
    /\ log = <<>>
    /\ env_item = <<>>
    /\ fpc = "idle"

IdleExport ==
    /\ tool = "none"
    /\ all_spaces = <<>>
    /\ spaces = {}
    /\ spaces_to_export = <<>>
    /\ xi = 0
    /\ requests = <<>>
    /\ exported = <<>>
    /\ errors = <<>>
    /\ details = FALSE
    /\ xpc = "idle"

IdleModifier ==
    /\ original_objects = <<>>
    /\ parsed_objects = <<>>
    /\ prefixes = <<>>
    /\ pi = 0
    /\ oi = 0
    /\ modified_objects = <<>>
    /\ written = <<>>
    /\ mpc = "idle"

IdleMain ==
    /\ mode = "none"
    /\ env = <<>>
    /\ envs = <<>>
    /\ ei = 0
    /\ outputs = <<>>
    /\ failures = <<>>
    /\ exit_status = 0
    /\ mainpc = "idle"

InitValue ==
    /\ IdleFile
    /\ IdleExport
    /\ IdleModifier
    /\ IdleMain
    /\ fn \in {"modify_value", "modify_dict"}
    /\ value \in Values
    /\ tag \in Tags
    /\ result = None
    /\ result2 = None
    /\ pc = "start"

FirstPass ==
    /\ pc = "start"
    /\ result' = CallFn(fn, value, tag)
    /\ pc' = "called"
    /\ UNCHANGED <<fn, value, tag, result2, fileVars, exportVars, modifierVars,
                   mainVars>>

\* the result of a call that returned, passed in again with the same tag
SecondPass ==
    /\ pc = "called"
    /\ ~IsRaise(result)
    /\ result2' = CallFn(fn, result, tag)
    /\ pc' = "twice"
    /\ UNCHANGED <<fn, value, tag, result, fileVars, exportVars, modifierVars,
                   mainVars>>

NextValue == FirstPass \/ SecondPass

SpecValue == InitValue /\ [][NextValue]_vars

---------------------------------------------------------------------------
(* Properties of modify_value and modify_dict, under SpecValue *)

Called == pc \in {"called", "twice"}

\* some string leaf of v holds the wildcard marker
RECURSIVE HasStar(_)
HasStar(v) ==
    IF IsStr(v) THEN Contains(v[2], "*")
    ELSE IF IsList(v) THEN \E i \in 1..Len(v[2]) : HasStar(v[2][i])
    ELSE IF IsDict(v) THEN \E i \in 1..Len(v[3]) : HasStar(v[3][i])
    ELSE FALSE

\* r has the shape of v: the keys of every mapping in their order, the
\* length of every sequence, a string where v has a string, and the very
\* number, boolean or null of v at every depth
RECURSIVE SameShape(_, _)
SameShape(v, r) ==
    IF IsDict(v)
    THEN /\ IsDict(r)
         /\ r[2] = v[2]
         /\ \A i \in 1..Len(v[3]) : SameShape(v[3][i], r[3][i])
    ELSE IF IsList(v)
    THEN /\ IsList(r)
         /\ Len(r[2]) = Len(v[2])
         /\ \A i \in 1..Len(v[2]) : SameShape(v[2][i], r[2][i])
    ELSE IF IsStr(v) THEN IsStr(r)
    ELSE r = v

\* C1: for every string that parses as a JSON document p, modify_value
\* returns without raising, and returns the serialization of the transform
\* of p
C1_EmbeddedJsonTransformed ==
    (fn = "modify_value" /\ Called /\ IsStr(value) /\ IsJson(value[2])) =>
        /\ ~IsRaise(result)
        /\ result = Str(JsonDumps(modify_value(JsonLoads(value[2])[2], tag)))

\* C1 for the documents the code handles: a string that parses as a mapping
\* none of whose string values is the text of a sequence or a scalar
C1_MappingTextTransformed ==
    (fn = "modify_value" /\ Called /\ IsStr(value) /\ IsJson(value[2])
       /\ ~IsRaise(result)) =>
        /\ IsDict(JsonLoads(value[2])[2])
        /\ result = Str(JsonDumps(modify_value(JsonLoads(value[2])[2], tag)))

\* C1, the example: '{"query":"status:*"}' with tag test re-parses to
\* {"query":"test:status:*"}
C1_Example ==
    (fn = "modify_value" /\ Called /\ tag = test
       /\ value = Str(Compact(Dict(<<K_query>>, <<Str(T_status)>>)))) =>
        /\ IsStr(result)
        /\ JsonLoads(result[2]) = <<TRUE, Dict(<<K_query>>, <<Str(T_teststatus)>>)>>

\* C2: a plain string with the marker and without the prefix gets the
\* prefix once, and for every value x the second pass over modify_value(x)
\* returns modify_value(x)
C2_SinglePrefixing ==
    (fn = "modify_value" /\ Called) =>
        /\ (IsStr(value) /\ ~IsJson(value[2]) /\ Contains(value[2], "*")
              /\ ~StartsWith(value[2], EnvPrefix(tag)))
             => result = Str(EnvPrefix(tag) \o value[2])
        /\ ~IsRaise(result)
        /\ pc = "twice" => result2 = result

\* C2 wherever the first pass returns: the second pass returns the same
C2_SecondPassKeeps ==
    /\ (fn = "modify_value" /\ Called /\ IsStr(value) /\ ~IsJson(value[2])
          /\ Contains(value[2], "*") /\ ~StartsWith(value[2], EnvPrefix(tag)))
         => result = Str(EnvPrefix(tag) \o value[2])
    /\ pc = "twice" => result2 = result

\* C3: a value none of whose strings holds the marker is returned equal
C3_NoMarkerUnchanged ==
    (fn = "modify_value" /\ Called /\ ~HasStar(value)) => result = value

\* C3 for the strings that are not JSON text
C3_PlainNoMarkerUnchanged ==
    (fn = "modify_value" /\ Called /\ IsStr(value) /\ ~IsJson(value[2])
       /\ ~Contains(value[2], "*")) => result = value

\* C3 where the call returns: the text of a mapping is written again
C3_NoMarkerUnchangedIfReturned ==
    (fn = "modify_value" /\ Called /\ ~HasStar(value) /\ ~IsRaise(result))
        => result = value

\* the inputs C4 speaks of: a mapping for either function, and a sequence,
\* a number, a boolean or null for modify_value
InShapeScope ==
    IF fn = "modify_dict" THEN IsDict(value) ELSE ~IsStr(value)

\* C4: modify_dict of a mapping, and modify_value of a sequence, return a
\* value of the same shape: same keys in the same order, same length,
\* element by element the transform, scalars unchanged at every depth
C4_ShapePreserved ==
    (Called /\ InShapeScope) =>
        /\ SameShape(value, result)
        /\ (IsList(value) /\ fn = "modify_value") =>
             \A i \in 1..Len(value[2]) :
                 result[2][i] = modify_value(value[2][i], tag)

\* C4 wherever the call returns
C4_ShapePreservedIfReturned ==
    (Called /\ InShapeScope /\ ~IsRaise(result)) =>
        /\ SameShape(value, result)
        /\ (IsList(value) /\ fn = "modify_value") =>
             \A i \in 1..Len(value[2]) :
                 result[2][i] = modify_value(value[2][i], tag)

---------------------------------------------------------------------------
(* modify_ndjson_env.py: modify_ndjson_file *)

\* w in s, for two str
IsSubstring(w, s) == \E i \in 1..(Len(s) + 1) : MatchAt(s, i, w)

\* 'attributes' in obj: <<TRUE, answer>>, or <<FALSE, exception>>
InObj(obj) ==
    IF IsDict(obj) THEN <<TRUE, HasKey(obj, K_attributes)>>
    ELSE IF IsList(obj)
    THEN <<TRUE, \E i \in 1..Len(obj[2]) : obj[2][i] = Str(K_attributes)>>
    ELSE IF IsStr(obj) THEN <<TRUE, IsSubstring(K_attributes, obj[2])>>
    ELSE <<FALSE, Raise("TypeError")>>

\* the body of the try block for one line: <<"skip">> when json.loads
\* raises JSONDecodeError, <<"write", text>> for the line written (without
\* its newline), or the exception that leaves the function
LineOutcome(line, env_prefix) ==
    The({
      IF ~parsed[1] THEN <<"skip">>
      ELSE The({
             IF ~InObj(obj)[1] THEN InObj(obj)[2]
             ELSE IF ~InObj(obj)[2] THEN <<"write", JsonDumps(obj)>>
             ELSE IF ~IsDict(obj) THEN Raise("TypeError")
             ELSE The({
                    IF IsRaise(modified) THEN modified
                    ELSE The({<<"write", JsonDumps(written_obj)>>
                              : written_obj \in {DictSet(obj, K_attributes, modified)}})
                    : modified \in {modify_dict(Get(obj, K_attributes), env_prefix)}})
             : obj \in {parsed[2]}})
      : parsed \in {JsonLoads(line)}})

\* the default of --input-ndjson
InputPath == "./input.ndjson"

\* the records and the lines of the input files
R_example ==
    Dict(<<K_id, K_type, K_attributes>>,
         <<Str(T_a1), Str(T_search),
           Dict(<<K_title, K_query>>, <<Str(T_logs), Str(T_source)>>)>>)
R_toplevel ==
    Dict(<<K_title, K_references, K_attributes>>,
         <<Str(T_foo), List(<<Str(T_foo)>>), EmptyDict>>)
R_noattrs == Dict(<<K_id>>, <<Str(T_a1)>>)
R_numtext == Dict(<<K_attributes>>, <<Dict(<<K_query>>, <<Str(<<"1">>)>>)>>)

L_bad == <<"{", Quote, "i", "d", Quote, ":">>
L_blank == <<>>

FileLines ==
    {Compact(R_example), Compact(R_toplevel), Compact(R_noattrs),
     Compact(R_numtext), L_bad, L_blank}

\* the longest input file, in lines
MaxLines == 3

Files == UNION {[1..n -> FileLines] : n \in 0..MaxLines}

\* line_num counts the lines consumed: the line at hand is line_num + 1
InitFile ==
    /\ IdleValue
    /\ IdleExport
    /\ IdleModifier
    /\ IdleMain
    /\ infile \in Files
    /\ env_item \in Tags
    /\ line_num = 0
    /\ outfile = <<>>
    /\ log = <<>>
    /\ fpc = "loop"

AtLine == fpc = "loop" /\ line_num < Len(infile)

\* the line parses and is written, its attributes transformed
LineWritten ==
    /\ AtLine
    /\ LineOutcome(infile[line_num + 1], env_item)[1] = "write"
    /\ outfile' = Append(outfile, LineOutcome(infile[line_num + 1], env_item)[2])
    /\ line_num' = line_num + 1
    /\ UNCHANGED <<infile, log, env_item, fpc, valueVars, exportVars, modifierVars,
                   mainVars>>

\* LineSkipped with the handler around the loop instead of inside it: the
\* first line that fails to parse ends the loop
LineSkippedEndsLoop ==
    /\ AtLine
    /\ LineOutcome(infile[line_num + 1], env_item)[1] = "skip"
    /\ log' = Append(log, <<line_num + 1, InputPath>>)
    /\ fpc' = "done"
    /\ UNCHANGED <<infile, line_num, outfile, env_item, valueVars, exportVars, modifierVars,
                   mainVars>>

\* except json.JSONDecodeError: logger.error, and the loop goes on
LineSkipped ==
    /\ AtLine
    /\ LineOutcome(infile[line_num + 1], env_item)[1] = "skip"
    /\ log' = Append(log, <<line_num + 1, InputPath>>)
    /\ line_num' = line_num + 1
    /\ UNCHANGED <<infile, outfile, env_item, fpc, valueVars, exportVars, modifierVars,
                   mainVars>>

\* any other exception leaves the loop and the function
LineRaises ==
    /\ AtLine
    /\ IsRaise(LineOutcome(infile[line_num + 1], env_item))
    /\ fpc' = "raised"
    /\ UNCHANGED <<infile, line_num, outfile, log, env_item, valueVars, exportVars, modifierVars,
                   mainVars>>

EndOfFile ==
    /\ fpc = "loop"
    /\ line_num = Len(infile)
    /\ fpc' = "done"
    /\ UNCHANGED <<infile, line_num, outfile, log, env_item, valueVars, exportVars, modifierVars,
                   mainVars>>

NextFile == LineWritten \/ LineSkipped \/ LineRaises \/ EndOfFile

SpecFile == InitFile /\ [][NextFile]_vars

---------------------------------------------------------------------------
(* Properties of modify_ndjson_file, under SpecFile *)

\* the numbers, in order, of the first n lines that parse (wanted = TRUE)
\* or fail to parse (wanted = FALSE)
RECURSIVE LinesThat(_, _, _)
LinesThat(file, n, wanted) ==
    IF n = 0 THEN <<>>
    ELSE IF IsJson(file[n]) = wanted
    THEN Append(LinesThat(file, n - 1, wanted), n)
    ELSE LinesThat(file, n - 1, wanted)

\* C5: the record written for a line that parses to a saved-object record
\* is the transform of the whole record: every string leaf with the marker,
\* under any field, carries the prefix
C5_WholeRecordTransformed ==
    (fpc # "idle") =>
        LET ok == LinesThat(infile, line_num, TRUE)
        IN  \A k \in 1..Len(outfile) :
                IsDict(JsonLoads(infile[ok[k]])[2]) =>
                    JsonLoads(outfile[k])
                        = <<TRUE, modify_value(JsonLoads(infile[ok[k]])[2], env_item)>>

\* C5 as the code has it: the record written is the record read with its
\* attributes, when it has any, replaced by their transform
C5_AttributesTransformed ==
    (fpc # "idle") =>
        LET ok == LinesThat(infile, line_num, TRUE)
        IN  \A k \in 1..Len(outfile) :
                LET obj == JsonLoads(infile[ok[k]])[2]
                IN  IsDict(obj) =>
                        JsonLoads(outfile[k])
                            = <<TRUE,
                                IF HasKey(obj, K_attributes)
                                THEN DictSet(obj, K_attributes,
                                             modify_value(Get(obj, K_attributes), env_item))
                                ELSE obj>>

\* C5, the example: the search a1 with tag sim
C5_Example ==
    (fpc = "done" /\ env_item = sim /\ infile = <<Compact(R_example)>>) =>
        /\ Len(outfile) = 1
        /\ JsonLoads(outfile[1])
             = <<TRUE,
                 Dict(<<K_id, K_type, K_attributes>>,
                      <<Str(T_a1), Str(T_search),
                        Dict(<<K_title, K_query>>,
                             <<Str(T_logs), Str(sim \o <<":">> \o T_source)>>)>>)>>

\* C6: the output holds one record for each line consumed that parses, in
\* the order of the input; each line that fails to parse is logged with its
\* number and the input path and writes nothing; the loop ends at the end
\* of the file, and no parse failure ends it before
C6_OneRecordPerValidLine ==
    (fpc # "idle") =>
        LET ok == LinesThat(infile, line_num, TRUE)
            bad == LinesThat(infile, line_num, FALSE)
        IN  /\ Len(outfile) = Len(ok)
            /\ \A k \in 1..Len(ok) :
                   outfile[k] = LineOutcome(infile[ok[k]], env_item)[2]
            /\ log = [k \in 1..Len(bad) |-> <<bad[k], InputPath>>]
            /\ fpc = "done" => line_num = Len(infile)
            /\ fpc = "raised" => IsJson(infile[line_num + 1])

\* a finished run that skipped a line between two lines it wrote
C6_Witness ==
    /\ fpc = "done"
    /\ Len(infile) = 3
    /\ ~IsJson(infile[2])
    /\ Len(outfile) = 2
    /\ outfile[1] # outfile[2]
    /\ log = <<<<2, InputPath>>>>

---------------------------------------------------------------------------
(* The export tools: export_kibana_data.py and kibana_export_tool.py *)

\* the most spaces the platform lists
MaxSpaces == 3

SpaceNames == <<"default", "admin", "ops", "lab", "qa">>
SpaceIds == {SpaceNames[i] : i \in 1..MaxSpaces}

\* an id that no space of the platform has
Ghost == "ghost"

\* the platform's answers to GET /api/spaces/space: lists without repeats
SpaceLists ==
    {l \in UNION {[1..n -> SpaceIds] : n \in 0..MaxSpaces} :
        \A i, j \in 1..Len(l) : i # j => l[i] # l[j]}

DataTool == "export_kibana_data"
ExportTool == "kibana_export_tool"

InitExport ==
    /\ IdleValue
    /\ IdleFile
    /\ IdleModifier
    /\ IdleMain
    /\ tool \in {DataTool, ExportTool}
    /\ all_spaces \in SpaceLists
    /\ spaces \in IF tool = DataTool THEN {{}} ELSE SUBSET (SpaceIds \cup {Ghost})
    /\ spaces_to_export = <<>>
    /\ xi = 0
    /\ requests = <<>>
    /\ exported = <<>>
    /\ errors = <<>>
    /\ details = FALSE
    /\ xpc = "start"

\* the error main's own handler logs: it names no space
RunError == <<"run", "An error occurred during export">>

\* ---- kibana_export_tool.py

\* a choice other than 1 or 2: logged, and main returns
Tool_BadChoice ==
    /\ tool = ExportTool /\ xpc = "start"
    /\ errors' = Append(errors, <<"run", "Invalid choice. Exiting.">>)
    /\ xpc' = "returned"
    /\ UNCHANGED <<tool, all_spaces, spaces, spaces_to_export, xi, requests,
                   exported, details, valueVars, fileVars, modifierVars,
                   mainVars>>

Tool_Auth ==
    /\ tool = ExportTool /\ xpc = "start"
    /\ xpc' = "auth"
    /\ UNCHANGED <<tool, all_spaces, spaces, spaces_to_export, xi, requests,
                   exported, errors, details, valueVars, fileVars, modifierVars,
                   mainVars>>

\* get_spaces returns the platform's list
Tool_GetSpaces ==
    /\ tool = ExportTool /\ xpc = "auth"
    /\ xpc' = "listed"
    /\ UNCHANGED <<tool, all_spaces, spaces, spaces_to_export, xi, requests,
                   exported, errors, details, valueVars, fileVars, modifierVars,
                   mainVars>>

\* get_spaces raises: caught by main's handler
Tool_GetSpacesFails ==
    /\ tool = ExportTool /\ xpc = "auth"
    /\ errors' = Append(errors, RunError)
    /\ xpc' = "failed_list"
    /\ UNCHANGED <<tool, all_spaces, spaces, spaces_to_export, xi, requests,
                   exported, details, valueVars, fileVars, modifierVars,
                   mainVars>>

\* validate_spaces with 'any requested id is valid' for 'all are valid'
invalid_spaces_unless_some_valid(requested, listed) ==
    IF \E i \in 1..Len(listed) : listed[i] \in requested
    THEN {}
    ELSE requested

\* the requested ids that are not in the platform's list; none when no id
\* is requested
invalid_spaces(requested, listed) ==
    IF requested = {} THEN {}
    ELSE {s \in requested : \A i \in 1..Len(listed) : listed[i] # s}

\* [space for space in all_spaces if space['id'] in spaces], or all of them
SelectSpaces(requested, listed) ==
    IF requested = {} THEN listed
    ELSE SelectSeq(listed, LAMBDA s : s \in requested)

\* validate_spaces finds an unknown id: exit(1); SystemExit is no Exception,
\* so main's handler does not catch it
Tool_ValidateExits ==
    /\ tool = ExportTool /\ xpc = "listed"
    /\ invalid_spaces(spaces, all_spaces) # {}
    /\ errors' = errors \o <<<<"run", "The following specified spaces do not exist">>,
                             <<"run", "Exiting due to invalid input.">>>>
    /\ xpc' = "exit1"
    /\ UNCHANGED <<tool, all_spaces, spaces, spaces_to_export, xi, requests,
                   exported, details, valueVars, fileVars, modifierVars,
                   mainVars>>

Tool_ValidateOk ==
    /\ tool = ExportTool /\ xpc = "listed"
    /\ invalid_spaces(spaces, all_spaces) = {}
    /\ spaces_to_export' = SelectSpaces(spaces, all_spaces)
    /\ xpc' = "validated"
    /\ UNCHANGED <<tool, all_spaces, spaces, xi, requests, exported, errors,
                   details, valueVars, fileVars, modifierVars, mainVars>>

\* export_space_details writes spaces_details.json
Tool_Details ==
    /\ tool = ExportTool /\ xpc = "validated"
    /\ details' = TRUE
    /\ xpc' = "loop"
    /\ UNCHANGED <<tool, all_spaces, spaces, spaces_to_export, xi, requests,
                   exported, errors, valueVars, fileVars, modifierVars,
                   mainVars>>

Tool_DetailsFails ==
    /\ tool = ExportTool /\ xpc = "validated"
    /\ errors' = Append(errors, RunError)
    /\ xpc' = "failed_details"
    /\ UNCHANGED <<tool, all_spaces, spaces, spaces_to_export, xi, requests,
                   exported, details, valueVars, fileVars, modifierVars,
                   mainVars>>

AtSpace == xpc = "loop" /\ xi < Len(spaces_to_export)

\* export_objects: the request succeeds, the NDJSON and the workbook are saved
Tool_ExportOk ==
    /\ tool = ExportTool /\ AtSpace
    /\ requests' = Append(requests, spaces_to_export[xi + 1])
    /\ exported' = Append(exported, spaces_to_export[xi + 1])
    /\ xi' = xi + 1
    /\ UNCHANGED <<tool, all_spaces, spaces, spaces_to_export, errors, details,
                   xpc, valueVars, fileVars, modifierVars, mainVars>>

\* export_objects: RequestException (status, timeout, connection) is
\* caught, logged with the space id, and the function returns
Tool_ExportRequestFails ==
    /\ tool = ExportTool /\ AtSpace
    /\ requests' = Append(requests, spaces_to_export[xi + 1])
    /\ errors' = Append(errors, <<spaces_to_export[xi + 1], "Failed to export objects">>)
    /\ xi' = xi + 1
    /\ UNCHANGED <<tool, all_spaces, spaces, spaces_to_export, exported, details,
                   xpc, valueVars, fileVars, modifierVars, mainVars>>

\* export_objects: makedirs or the NDJSON write raises OSError, outside
\* any handler of export_objects: main's handler ends the loop
Tool_ExportSaveFails ==
    /\ tool = ExportTool /\ AtSpace
    /\ requests' = Append(requests, spaces_to_export[xi + 1])
    /\ errors' = Append(errors, RunError)
    /\ xpc' = "failed_space"
    /\ UNCHANGED <<tool, all_spaces, spaces, spaces_to_export, xi, exported,
                   details, valueVars, fileVars, modifierVars, mainVars>>

\* export_objects_to_excel: any exception is caught and logged with the id
Tool_ExportExcelFails ==
    /\ tool = ExportTool /\ AtSpace
    /\ requests' = Append(requests, spaces_to_export[xi + 1])
    /\ exported' = Append(exported, spaces_to_export[xi + 1])
    /\ errors' = Append(errors, <<spaces_to_export[xi + 1], "Failed to export to Excel">>)
    /\ xi' = xi + 1
    /\ UNCHANGED <<tool, all_spaces, spaces, spaces_to_export, details, xpc,
                   valueVars, fileVars, modifierVars, mainVars>>

\* after the loop: the global summary, when there is one
Tool_Summary ==
    /\ tool = ExportTool /\ xpc = "loop" /\ xi = Len(spaces_to_export)
    /\ xpc' = "done"
    /\ UNCHANGED <<tool, all_spaces, spaces, spaces_to_export, xi, requests,
                   exported, errors, details, valueVars, fileVars, modifierVars,
                   mainVars>>

Tool_SummaryFails ==
    /\ tool = ExportTool /\ xpc = "loop" /\ xi = Len(spaces_to_export)
    /\ exported # <<>>
    /\ errors' = Append(errors, RunError)
    /\ xpc' = "failed_summary"
    /\ UNCHANGED <<tool, all_spaces, spaces, spaces_to_export, xi, requests,
                   exported, details, valueVars, fileVars, modifierVars,
                   mainVars>>

\* ---- export_kibana_data.py: one try block around the listing and the loop

Data_GetSpaces ==
    /\ tool = DataTool /\ xpc = "start"
    /\ spaces_to_export' = all_spaces
    /\ xpc' = "loop"
    /\ UNCHANGED <<tool, all_spaces, spaces, xi, requests, exported, errors,
                   details, valueVars, fileVars, modifierVars, mainVars>>

Data_GetSpacesFails ==
    /\ tool = DataTool /\ xpc = "start"
    /\ errors' = Append(errors, <<"run", "Failed to export Kibana data">>)
    /\ xpc' = "failed_list"
    /\ UNCHANGED <<tool, all_spaces, spaces, spaces_to_export, xi, requests,
                   exported, details, valueVars, fileVars, modifierVars,
                   mainVars>>

\* fetch_saved_objects and save_outputs succeed
Data_ExportOk ==
    /\ tool = DataTool /\ AtSpace
    /\ requests' = Append(requests, spaces_to_export[xi + 1])
    /\ exported' = Append(exported, spaces_to_export[xi + 1])
    /\ xi' = xi + 1
    /\ UNCHANGED <<tool, all_spaces, spaces, spaces_to_export, errors, details,
                   xpc, valueVars, fileVars, modifierVars, mainVars>>

\* fetch_saved_objects raises (raise_for_status, timeout): main's handler
Data_FetchFails ==
    /\ tool = DataTool /\ AtSpace
    /\ requests' = Append(requests, spaces_to_export[xi + 1])
    /\ errors' = Append(errors, <<"run", "Failed to export Kibana data">>)
    /\ xpc' = "failed_space"
    /\ UNCHANGED <<tool, all_spaces, spaces, spaces_to_export, xi, exported,
                   details, valueVars, fileVars, modifierVars, mainVars>>

\* save_outputs raises (mkdir, write, a line that is not JSON, to_excel),
\* before or after the NDJSON file of the space is written
Data_SaveFails ==
    /\ tool = DataTool /\ AtSpace
    /\ requests' = Append(requests, spaces_to_export[xi + 1])
    /\ \E ndjson_saved \in BOOLEAN :
           exported' = IF ndjson_saved
                       THEN Append(exported, spaces_to_export[xi + 1])
                       ELSE exported
    /\ errors' = Append(errors, <<"run", "Failed to export Kibana data">>)
    /\ xpc' = "failed_space"
    /\ UNCHANGED <<tool, all_spaces, spaces, spaces_to_export, xi, details,
                   valueVars, fileVars, modifierVars, mainVars>>

Data_End ==
    /\ tool = DataTool /\ xpc = "loop" /\ xi = Len(spaces_to_export)
    /\ xpc' = "done"
    /\ UNCHANGED <<tool, all_spaces, spaces, spaces_to_export, xi, requests,
                   exported, errors, details, valueVars, fileVars, modifierVars,
                   mainVars>>

NextExport ==
    \/ Tool_BadChoice \/ Tool_Auth \/ Tool_GetSpaces \/ Tool_GetSpacesFails
    \/ Tool_ValidateExits \/ Tool_ValidateOk \/ Tool_Details \/ Tool_DetailsFails
    \/ Tool_ExportOk \/ Tool_ExportRequestFails \/ Tool_ExportSaveFails
    \/ Tool_ExportExcelFails \/ Tool_Summary \/ Tool_SummaryFails
    \/ Data_GetSpaces \/ Data_GetSpacesFails \/ Data_ExportOk \/ Data_FetchFails
    \/ Data_SaveFails \/ Data_End

SpecExport == InitExport /\ [][NextExport]_vars

---------------------------------------------------------------------------
(* Properties of the export runs, under SpecExport *)

\* the run is over and had reached the loop over the spaces
EndedAfterLoopBegan == xpc \in {"done", "failed_space", "failed_summary"}

Saved(s) == \E i \in 1..Len(exported) : exported[i] = s

\* the failure of one space is that space's only: every space of the list
\* is requested, and each is saved or its failure is logged
PerSpaceFailure ==
    EndedAfterLoopBegan =>
        /\ requests = spaces_to_export
        /\ \A i \in 1..Len(spaces_to_export) :
               Saved(spaces_to_export[i]) \/ errors # <<>>

\* C7: in both export tools, a failure for one space is reported and ends
\* that space only; every later space is still requested and exported
C7_FailureIsPerSpace == PerSpaceFailure

\* C7 for each tool alone
C7_DataTool == tool = DataTool => PerSpaceFailure
C7_ExportTool == tool = ExportTool => PerSpaceFailure

\* C7 as kibana_export_tool.py has it: a failed request and a failed
\* workbook end that space only
C7_ToolRequestAndExcelFailures ==
    (tool = ExportTool /\ xpc \in {"done", "failed_summary"}) => PerSpaceFailure

PreFlight == {"start", "auth", "listed", "returned", "failed_list"}

\* C8: with a requested id that the platform does not list, the run never
\* gets past validation: it exits, spaces_details.json is not written and
\* no export request is sent; with every requested id valid, or none
\* requested, validation does not end the run
C8_InvalidSpaceAbortsBeforeExport ==
    (tool = ExportTool) =>
        /\ (\E s \in spaces : \A i \in 1..Len(all_spaces) : all_spaces[i] # s) =>
              /\ xpc \in PreFlight \cup {"exit1"}
              /\ ~details
              /\ requests = <<>> /\ exported = <<>>
        /\ (\A s \in spaces : \E i \in 1..Len(all_spaces) : all_spaces[i] = s) =>
              xpc # "exit1"
        /\ xpc = "listed" =>
              ENABLED (IF \A s \in spaces : \E i \in 1..Len(all_spaces) : all_spaces[i] = s
                       THEN Tool_ValidateOk ELSE Tool_ValidateExits)

\* the run exited at validation with a valid and an unknown id requested
C8_Witness ==
    /\ tool = ExportTool
    /\ xpc = "exit1"
    /\ Ghost \in spaces
    /\ \E i \in 1..Len(all_spaces) : all_spaces[i] \in spaces

---------------------------------------------------------------------------
(* kibana_object_modifier.py *)

P_Dev == <<"D", "e", "v", ":">>
P_Test == <<"T", "e", "s", "t", ":">>
P_Sim == <<"S", "i", "m", ":">>
P_Live == <<"L", "i", "v", "e", ":">>

ENVIRONMENT_PREFIXES == <<P_Dev, P_Test, P_Sim, P_Live>>

\* str(value) of a value that is no dict and no list
RECURSIVE PyStr(_)
PyStr(v) ==
    IF IsStr(v) THEN v[2]
    ELSE IF TypeOf(v) = "int" THEN IntDigits(v[2])
    ELSE IF TypeOf(v) = "bool"
    THEN (IF v[2] THEN <<"T", "r", "u", "e">> ELSE <<"F", "a", "l", "s", "e">>)
    ELSE <<"N", "o", "n", "e">>

\* f"{prefix}{value}" if '*' in str(value) else value
PrefixLeaf(v, prefix) ==
    IF Contains(PyStr(v), "*") THEN Str(prefix \o PyStr(v)) ELSE v

RECURSIVE modify_with_prefix(_, _)
modify_with_prefix(obj, prefix) ==
    IF IsDict(obj)
    THEN Dict(obj[2],
              [i \in 1..Len(obj[3]) |->
                  IF IsDict(obj[3][i]) THEN modify_with_prefix(obj[3][i], prefix)
                  ELSE IF IsList(obj[3][i])
                  THEN List([j \in 1..Len(obj[3][i][2]) |->
                                modify_with_prefix(obj[3][i][2][j], prefix)])
                  ELSE PrefixLeaf(obj[3][i], prefix)])
    ELSE IF IsList(obj)
    THEN List([j \in 1..Len(obj[2]) |-> modify_with_prefix(obj[2][j], prefix)])
    ELSE PrefixLeaf(obj, prefix)

K_searchSourceJSON ==
    <<"s", "e", "a", "r", "c", "h", "S", "o", "u", "r", "c", "e", "J", "S", "O", "N">>
K_panelsJSON == <<"p", "a", "n", "e", "l", "s", "J", "S", "O", "N">>

\* obj.get(key, default)
GetOr(obj, key, default) == IF HasKey(obj, key) THEN Get(obj, key) ELSE default

\* attributes = obj.get('attributes', {}); attributes['id'] = obj.get('id', '')
\* the dict of the record itself gets the key; a default {} is no part of it
RecordAfterIdCopy(obj) ==
    IF HasKey(obj, K_attributes)
    THEN DictSet(obj, K_attributes,
                 DictSet(Get(obj, K_attributes), K_id, GetOr(obj, K_id, Str(<<>>))))
    ELSE obj

\* the body of the inner loop for one record: modified_obj
ModifiedObject(obj, prefix) ==
    LET attributes == DictSet(GetOr(obj, K_attributes, EmptyDict), K_id,
                              GetOr(obj, K_id, Str(<<>>)))
        modified_attributes == modify_with_prefix(attributes, prefix)
        modified_references ==
            modify_with_prefix(GetOr(obj, K_references, EmptyDict), prefix)
        modified_obj == modify_with_prefix(RecordAfterIdCopy(obj), prefix)
        modified_searchSourceJSON ==
            modify_with_prefix(GetOr(obj, K_searchSourceJSON, EmptyDict), prefix)
        modified_panelsJSON ==
            modify_with_prefix(GetOr(obj, K_panelsJSON, EmptyDict), prefix)
    IN  DictSet(DictSet(DictSet(DictSet(modified_obj,
            K_attributes, modified_attributes),
            K_references, modified_references),
            K_searchSourceJSON, modified_searchSourceJSON),
            K_panelsJSON, modified_panelsJSON)

\* the records of the input batches
R_starid ==
    Dict(<<K_id, K_attributes>>,
         <<Str(T_a1star), Dict(<<K_title>>, <<Str(T_logs)>>)>>)
R_refsonly ==
    Dict(<<K_id, K_references>>,
         <<Str(T_a1), List(<<Dict(<<K_id>>, <<Str(T_foo)>>)>>)>>)
R_noid == Dict(<<K_title, K_attributes>>, <<Str(T_foo), EmptyDict>>)

Records == {R_example, R_starid, R_refsonly, R_noid}

\* the most records of a batch, and the most prefixes of a run
MaxBatch == 2
MaxPrefixes == 2

Batches == UNION {[1..n -> Records] : n \in 0..MaxBatch}

PrefixLists ==
    {l \in UNION {[1..n -> {ENVIRONMENT_PREFIXES[i] : i \in 1..Len(ENVIRONMENT_PREFIXES)}] :
                    n \in 0..MaxPrefixes} :
        \A i, j \in 1..Len(l) : i # j => l[i] # l[j]}

InitModifier ==
    /\ IdleValue
    /\ IdleFile
    /\ IdleExport
    /\ IdleMain
    /\ original_objects \in Batches
    /\ parsed_objects = original_objects
    /\ prefixes \in PrefixLists
    /\ pi = 0
    /\ oi = 0
    /\ modified_objects = <<>>
    /\ written = <<>>
    /\ mpc = "loop"

AtPrefix == mpc = "loop" /\ pi < Len(prefixes)

\* one pass of 'for obj in original_objects'
ObjectStep ==
    /\ AtPrefix
    /\ oi < Len(original_objects)
    /\ original_objects' =
           [original_objects EXCEPT ![oi + 1] = RecordAfterIdCopy(@)]
    /\ modified_objects' =
           Append(modified_objects,
                  ModifiedObject(original_objects[oi + 1], prefixes[pi + 1]))
    /\ oi' = oi + 1
    /\ UNCHANGED <<parsed_objects, prefixes, pi, written, mpc,
                   valueVars, fileVars, exportVars, mainVars>>

\* the workbook and the NDJSON file of the prefix are written
PrefixSaved ==
    /\ AtPrefix
    /\ oi = Len(original_objects)
    /\ written' = Append(written, <<prefixes[pi + 1], modified_objects>>)
    /\ pi' = pi + 1
    /\ oi' = 0
    /\ modified_objects' = <<>>
    /\ UNCHANGED <<original_objects, parsed_objects, prefixes, mpc,
                   valueVars, fileVars, exportVars, mainVars>>

\* makedirs, to_excel or the NDJSON write raises: no handler in the function
PrefixSaveFails ==
    /\ AtPrefix
    /\ oi = Len(original_objects)
    /\ mpc' = "raised"
    /\ UNCHANGED <<original_objects, parsed_objects, prefixes, pi, oi,
                   modified_objects, written, valueVars, fileVars, exportVars,
                   mainVars>>

ModifierDone ==
    /\ mpc = "loop"
    /\ pi = Len(prefixes)
    /\ mpc' = "done"
    /\ UNCHANGED <<original_objects, parsed_objects, prefixes, pi, oi,
                   modified_objects, written, valueVars, fileVars, exportVars,
                   mainVars>>

NextModifier == ObjectStep \/ PrefixSaved \/ PrefixSaveFails \/ ModifierDone

SpecModifier == InitModifier /\ [][NextModifier]_vars

---------------------------------------------------------------------------
(* Properties of extract_and_modify_attributes, under SpecModifier *)

\* the batch a run over the one prefix would write from the batch as parsed
SingleRun(batch, prefix) ==
    [i \in 1..Len(batch) |-> ModifiedObject(batch[i], prefix)]

\* every batch written is the batch of the run over its prefix alone
OutputsIndependent ==
    \A k \in 1..Len(written) :
        written[k][2] = SingleRun(parsed_objects, written[k][1])

\* C9: the loaded batch stays, key for key and value for value, the batch
\* as parsed, and each written batch is computed from it, whatever other
\* prefixes were processed before
C9_InputNotMutated ==
    (mpc # "idle") =>
        /\ original_objects = parsed_objects
        /\ OutputsIndependent

\* C9, its second half alone
C9_OutputsIndependent == (mpc # "idle") => OutputsIndependent

\* C10: in every written record the id under attributes is the top-level
\* id, and both are the id of the input record, without a prefix
C10_IdCopiedThrough ==
    (mpc # "idle") =>
        \A k \in 1..Len(written) : \A i \in 1..Len(written[k][2]) :
            HasKey(parsed_objects[i], K_id) =>
                /\ Get(Get(written[k][2][i], K_attributes), K_id)
                     = Get(written[k][2][i], K_id)
                /\ Get(written[k][2][i], K_id) = Get(parsed_objects[i], K_id)

\* C10, its first half alone: the two ids of a written record agree
C10_IdsAgree ==
    (mpc # "idle") =>
        \A k \in 1..Len(written) : \A i \in 1..Len(written[k][2]) :
            HasKey(parsed_objects[i], K_id) =>
                Get(Get(written[k][2][i], K_attributes), K_id)
                    = Get(written[k][2][i], K_id)

---------------------------------------------------------------------------
(* modify_ndjson_env.py: main, modify mode *)

\* --env all
All == <<"a", "l", "l">>

\* the longest input file of a run of main, in lines
MaxMainLines == 2

MainFiles == UNION {[1..n -> FileLines] : n \in 0..MaxMainLines}

InitMain ==
    /\ IdleValue
    /\ IdleExport
    /\ IdleModifier
    /\ infile \in MainFiles
    /\ line_num = 0
    /\ outfile = <<>>
    /\ log = <<>>
    /\ env_item = <<>>
    /\ fpc = "idle"
    /\ mode \in {"export", "modify"}
    /\ env \in Tags \cup {All}
    /\ envs = <<>>
    /\ ei = 0
    /\ outputs = <<>>
    /\ failures = <<>>
    /\ exit_status = 0
    /\ mainpc = "start"

\* mode == 'export': a notice is printed and main returns
Main_ExportMode ==
    /\ mainpc = "start"
    /\ mode = "export"
    /\ mainpc' = "done"
    /\ UNCHANGED <<mode, env, envs, ei, outputs, failures, exit_status,
                   valueVars, fileVars, exportVars, modifierVars>>

\* envs = ['dev', 'test', 'sim', 'live'] if env == 'all' else [env]
Main_Envs ==
    /\ mainpc = "start"
    /\ mode = "modify"
    /\ envs' = IF env = All THEN ENVS ELSE <<env>>
    /\ mainpc' = "loop"
    /\ UNCHANGED <<mode, env, ei, outputs, failures, exit_status,
                   valueVars, fileVars, exportVars, modifierVars>>

AtTag == mainpc = "loop" /\ ei < Len(envs)

\* for env_item in envs: modify_ndjson_file is entered, the directory made
\* and both files opened
Main_TagOpened ==
    /\ AtTag
    /\ ei' = ei + 1
    /\ env_item' = envs[ei + 1]
    /\ line_num' = 0
    /\ outfile' = <<>>
    /\ fpc' = "loop"
    /\ mainpc' = "file"
    /\ UNCHANGED <<mode, env, envs, outputs, failures, exit_status, infile, log,
                   valueVars, exportVars, modifierVars>>

\* mkdir or open raises OSError: no output file, and the handler of main
\* logs the exception and exits with status 1
Main_OpenFails ==
    /\ AtTag
    /\ ei' = ei + 1
    /\ env_item' = envs[ei + 1]
    /\ failures' = Append(failures, "OSError")
    /\ exit_status' = 1
    /\ mainpc' = "exit"
    /\ UNCHANGED <<mode, env, envs, outputs, infile, line_num, outfile, log, fpc,
                   valueVars, exportVars, modifierVars>>

\* modify_ndjson_file returns: the output file is closed with every record
Main_TagWritten ==
    /\ mainpc = "file"
    /\ fpc = "done"
    /\ outputs' = Append(outputs, <<env_item, outfile, TRUE>>)
    /\ mainpc' = "loop"
    /\ UNCHANGED <<mode, env, envs, ei, failures, exit_status,
                   valueVars, fileVars, exportVars, modifierVars>>

\* an exception leaves modify_ndjson_file: the with statement closes the
\* output file with the records written before, and the handler of main
\* logs the exception and exits with status 1
Main_TagRaises ==
    /\ mainpc = "file"
    /\ fpc = "raised"
    /\ outputs' = Append(outputs, <<env_item, outfile, FALSE>>)
    /\ failures' = Append(failures, LineOutcome(infile[line_num + 1], env_item)[2])
    /\ exit_status' = 1
    /\ mainpc' = "exit"
    /\ UNCHANGED <<mode, env, envs, ei, valueVars, fileVars, exportVars,
                   modifierVars>>

\* the loop over envs is over
Main_End ==
    /\ mainpc = "loop"
    /\ ei = Len(envs)
    /\ mainpc' = "done"
    /\ UNCHANGED <<mode, env, envs, ei, outputs, failures, exit_status,
                   valueVars, fileVars, exportVars, modifierVars>>

NextMain ==
    \/ Main_ExportMode
    \/ Main_Envs
    \/ Main_TagOpened
    \/ Main_OpenFails
    \/ LineWritten
    \/ LineSkipped
    \/ LineRaises
    \/ EndOfFile
    \/ Main_TagWritten
    \/ Main_TagRaises
    \/ Main_End

SpecMain == InitMain /\ [][NextMain]_vars

---------------------------------------------------------------------------
(* Properties of main in modify mode, under SpecMain *)

MainEnded == mode = "modify" /\ mainpc \in {"done", "exit"}

\* the output file of tag t is on disk, closed with every record
OutputWritten(t) ==
    \E k \in 1..Len(outputs) : outputs[k][1] = t /\ outputs[k][3]

\* C11: a failure while producing the output of one tag is reported for
\* that tag and does not abort the remaining tags: when the run has ended
\* the loop has taken up every tag of envs, each tag has its output file
\* written or its own failure reported
C11_TagFailureIsPerTag ==
    MainEnded =>
        /\ ei = Len(envs)
        /\ Len(failures)
             = Cardinality({k \in 1..Len(envs) : ~OutputWritten(envs[k])})

\* C11, the order: all expands to dev, test, sim, live, and the output
\* files are produced in the order of envs
C11_TagsInOrder ==
    (mode = "modify" /\ mainpc # "start") =>
        /\ envs = IF env = All THEN <<dev, test, sim, live>> ELSE <<env>>
        /\ Len(outputs) <= Len(envs)
        /\ \A k \in 1..Len(outputs) : outputs[k][1] = envs[k]

\* C11 as the code has it: the first failure is logged once, ends the run
\* with status 1, and no later tag gets an output file
C11_FirstFailureEndsRun ==
    (MainEnded /\ failures # <<>>) =>
        /\ Len(failures) = 1
        /\ exit_status = 1
        /\ mainpc = "exit"
        /\ \A k \in (ei + 1)..Len(envs) :
               \A j \in 1..Len(outputs) : outputs[j][1] # envs[k]
        /\ \A k \in 1..(ei - 1) : OutputWritten(envs[k])

---------------------------------------------------------------------------
(* Calls of modify_with_prefix: one call, and a second pass over its result *)

Prefixes == {ENVIRONMENT_PREFIXES[i] : i \in 1..Len(ENVIRONMENT_PREFIXES)}

\* texts that begin with a prefix already
PrefixedTexts == {q \o s : q \in Prefixes, s \in {T_foo, T_logs}}

PrefixInputs ==
    {Str(s) : s \in ShortStrings} \cup Leaves \cup Level1
    \cup {Str(s) : s \in PrefixedTexts}
    \cup {List(<<Str(s)>>) : s \in PrefixedTexts}
    \cup {Dict(<<K_title>>, <<Str(s)>>) : s \in PrefixedTexts}
    \cup {R_example, R_starid, R_refsonly}

InitPrefix ==
    /\ IdleFile
    /\ IdleExport
    /\ IdleModifier
    /\ IdleMain
    /\ fn = "modify_with_prefix"
    /\ value \in PrefixInputs
    /\ tag \in Prefixes
    /\ result = None
    /\ result2 = None
    /\ pc = "start"

PrefixFirstPass ==
    /\ pc = "start"
    /\ result' = modify_with_prefix(value, tag)
    /\ pc' = "called"
    /\ UNCHANGED <<fn, value, tag, result2, fileVars, exportVars, modifierVars,
                   mainVars>>

\* the result passed in again with the same prefix
PrefixSecondPass ==
    /\ pc = "called"
    /\ result2' = modify_with_prefix(result, tag)
    /\ pc' = "twice"
    /\ UNCHANGED <<fn, value, tag, result, fileVars, exportVars, modifierVars,
                   mainVars>>

NextPrefix == PrefixFirstPass \/ PrefixSecondPass

SpecPrefix == InitPrefix /\ [][NextPrefix]_vars

---------------------------------------------------------------------------
(* Properties of modify_with_prefix, under SpecPrefix *)

PrefixCalled == fn = "modify_with_prefix" /\ pc \in {"called", "twice"}

\* some string leaf of v holds the marker
RECURSIVE HasStarLeaf(_)
HasStarLeaf(v) ==
    IF IsStr(v) THEN Contains(v[2], "*")
    ELSE IF IsList(v) THEN \E i \in 1..Len(v[2]) : HasStarLeaf(v[2][i])
    ELSE IF IsDict(v) THEN \E i \in 1..Len(v[3]) : HasStarLeaf(v[3][i])
    ELSE FALSE

\* C12: modify_with_prefix applies the leaf rule of modify_value: a string
\* with the marker that does not begin with the prefix comes back as
\* prefix + value, a string that begins with the prefix comes back
\* unchanged, and a second pass with the same prefix changes nothing
C12_SinglePrefixing ==
    /\ (PrefixCalled /\ IsStr(value)) =>
           result = IF Contains(value[2], "*") /\ ~StartsWith(value[2], tag)
                    THEN Str(tag \o value[2])
                    ELSE value
    /\ (fn = "modify_with_prefix" /\ pc = "twice") => result2 = result

\* C12 as the code has it: a string with the marker comes back as
\* prefix + value whether or not it begins with the prefix, any other
\* string unchanged; a second pass changes the result exactly when a
\* string leaf holds the marker, and a string with the marker then
\* carries the prefix twice
C12_PrefixWhereverMarker ==
    /\ (PrefixCalled /\ IsStr(value)) =>
           result = IF Contains(value[2], "*") THEN Str(tag \o value[2]) ELSE value
    /\ (fn = "modify_with_prefix" /\ pc = "twice") =>
           /\ (result2 = result) <=> ~HasStarLeaf(value)
           /\ (IsStr(value) /\ Contains(value[2], "*")) =>
                  result2 = Str(tag \o tag \o value[2])

====
